---- MODULE Spec2Model ----
(***************************************************************************)
(* Rule-evaluation core of the document checker (src/app_cloud_min.py):    *)
(* date extraction from free text (find_dates), month-interval arithmetic  *)
(* in IEEE double precision (month_diff), the two document checkers and    *)
(* the dispatch table.                                                     *)
(*                                                                         *)
(* A text is a sequence of characters; a character is a one-element        *)
(* string.  Hangul syllables are written in romanised form, one string per *)
(* syllable ("nyeon" is the year marker, "wol" the month marker, "il" the  *)
(* day marker).                                                            *)
(***************************************************************************)
EXTENDS Integers, Sequences, FiniteSets, TLC

VARIABLES
    clock,      \* the date dt.date.today() returns when it is called now
    ticks,      \* midnights passed since the initial state
    pc,         \* position of the script / of the running checker
    doc_type,   \* the document-type selector handed to the dispatch table
    text,       \* the extracted text
    checker,    \* the function the dispatch table returned ("none" before)
    error,      \* the exception that ended the run ("none" if none)
    results,    \* the checker's results list
    found,      \* the value of the find_dates(text) call being iterated
    idx,        \* number of elements of found the running loop has consumed
    all_dates,  \* line 90: the dates the filter has kept
    latest,     \* line 91: max(all_dates), or None
    elapsed,    \* line 97: month_diff(today, latest), a double, or None
    ok,         \* line 98
    has_future, \* line 102: the value of any(...) so far
    reads       \* the clock values the statements of the run have read

vars == <<clock, ticks, pc, doc_type, text, checker, error, results, found,
          idx, all_dates, latest, elapsed, ok, has_future, reads>>

\* Python's None; a value that may be None is <<>> or <<v>>.
None == <<>>

(***************************************************************************)
(* Bounds of the model.                                                    *)
(***************************************************************************)
MaxFrags == 2
MaxTicks == 1
MaxElapsedDays == 100

(***************************************************************************)
(* Calendar dates: datetime.date values, records [y, m, d].                *)
(***************************************************************************)
IsLeap(y) == (y % 4 = 0) /\ ((y % 100 # 0) \/ (y % 400 = 0))

DaysInMonth(y, m) ==
    IF m = 2 THEN (IF IsLeap(y) THEN 29 ELSE 28)
    ELSE IF m \in {4, 6, 9, 11} THEN 30 ELSE 31

\* dt.date(y, m, d) raises ValueError unless the triple is a calendar date.
ValidDate(y, m, d) ==
    /\ y \in 1..9999
    /\ m \in 1..12
    /\ d >= 1
    /\ d <= DaysInMonth(y, m)

Date(y, m, d) == [y |-> y, m |-> m, d |-> d]

\* date.__le__ / date.__lt__: the order of (year, month, day).
DateLt(a, b) ==
    \/ a.y < b.y
    \/ a.y = b.y /\ a.m < b.m
    \/ a.y = b.y /\ a.m = b.m /\ a.d < b.d

DateLe(a, b) == a = b \/ DateLt(a, b)

\* The date the clock shows after the next midnight.
Tomorrow(a) ==
    IF a.d < DaysInMonth(a.y, a.m) THEN Date(a.y, a.m, a.d + 1)
    ELSE IF a.m < 12 THEN Date(a.y, a.m + 1, 1)
    ELSE Date(a.y + 1, 1, 1)

RECURSIVE DaysAfter(_, _)
DaysAfter(a, n) == IF n = 0 THEN a ELSE DaysAfter(Tomorrow(a), n - 1)

RECURSIVE MaxDate(_)
\* max() of a non-empty list of dates.
MaxDate(s) ==
    IF Len(s) = 1 THEN s[1]
    ELSE LET r == MaxDate(Tail(s))
         IN  IF DateLt(s[1], r) THEN r ELSE s[1]

(***************************************************************************)
(* IEEE 754 double precision, as far as month_diff and the comparison of   *)
(* line 98 use it.  Every double that arises here is a multiple of         *)
(* 2^-FracBits below 2^IntBits, so its magnitude is written exactly as a   *)
(* string of IntBits + FracBits bits, most significant first; a double is  *)
(* [neg, mag].  Each operation computes the exact result and rounds it to  *)
(* Precision significant bits, ties to even.                               *)
(***************************************************************************)
Precision == 53
IntBits == 7
FracBits == 57
FixWidth == IntBits + FracBits

RECURSIVE Pow2(_)
Pow2(n) == IF n = 0 THEN 1 ELSE 2 * Pow2(n - 1)

RECURSIVE Pow2Mod(_, _)
\* 2^n modulo d.
Pow2Mod(n, d) ==
    IF n = 0 THEN 1 % d
    ELSE LET h == Pow2Mod(n \div 2, d)
         IN  (h * h * (IF n % 2 = 1 THEN 2 ELSE 1)) % d

Abs(n) == IF n < 0 THEN -n ELSE n

\* A function on 1..n as a tuple.
Tup(f) == f \o <<>>

Zeros(n) == Tup([i \in 1..n |-> 0])

IsZeroBits(b) == \A i \in 1..Len(b) : b[i] = 0

\* The bits of the natural number n < 2^IntBits.
IntPart(n) == Tup([i \in 1..IntBits |-> (n \div Pow2(IntBits - i)) % 2])

\* The bits of the natural number n < 2^IntBits, followed by a zero fraction.
FixOfInt(n) == IntPart(n) \o Zeros(FracBits)

\* The first k bits after the binary point of r/d (0 <= r < d): long division,
\* the remainder before bit i being r * 2^(i-1) modulo d.
FracDiv(r, d, k) ==
    Tup([i \in 1..k |-> IF 2 * ((r * Pow2Mod(i - 1, d)) % d) >= d THEN 1 ELSE 0])

\* The remainder the long division of r by d leaves after k bits.
FracRem(r, d, k) == (r * Pow2Mod(k, d)) % d

\* b + 1 in the last place: a place flips when every place below it is 1.
IncBits(b) ==
    Tup([i \in 1..Len(b) |->
            IF \A j \in (i + 1)..Len(b) : b[j] = 1 THEN 1 - b[i] ELSE b[i]])

\* Index of the leading 1 of b (Len(b) + 1 if there is none).
LeadingOne(b) ==
    IF IsZeroBits(b) THEN Len(b) + 1
    ELSE CHOOSE i \in 1..Len(b) : b[i] = 1 /\ \A j \in 1..(i - 1) : b[j] = 0

\* Round to nearest, ties to even: b holds the exact magnitude to Len(b) places
\* (Len(b) >= FixWidth), sticky says that the exact value has more below them.
RoundBits(b, sticky) ==
    LET n    == Len(b)
        last == LeadingOne(b) + Precision - 1
    IN  IF last >= n THEN SubSeq(b, 1, FixWidth)
        ELSE LET st   == sticky \/ \E j \in (last + 2)..n : b[j] = 1
                 up   == b[last + 1] = 1 /\ (st \/ b[last] = 1)
                 kept == SubSeq(b, 1, last)
                 r    == IF up THEN IncBits(kept) ELSE kept
             IN  SubSeq(r \o Zeros(n - last), 1, FixWidth)

\* a + b: the carry into place i comes from a place below it where both bits
\* are 1, through places where at least one is.
AddBits(a, b) ==
    LET n    == Len(a)
        c(i) == IF \E j \in (i + 1)..n :
                       /\ a[j] + b[j] = 2
                       /\ \A k \in (i + 1)..(j - 1) : a[k] + b[k] >= 1
                THEN 1 ELSE 0
    IN  Tup([i \in 1..n |-> (a[i] + b[i] + c(i)) % 2])

\* a - b (a >= b): place i lends when a place below it has a[j] < b[j] and no
\* place between them has a[k] > b[k].
SubBits(a, b) ==
    LET n    == Len(a)
        c(i) == IF \E j \in (i + 1)..n :
                       /\ a[j] < b[j]
                       /\ \A k \in (i + 1)..(j - 1) : a[k] <= b[k]
                THEN 1 ELSE 0
    IN  Tup([i \in 1..n |-> (a[i] - b[i] - c(i) + 2) % 2])

BitsLt(a, b) == \E i \in 1..Len(a) : a[i] < b[i] /\ \A j \in 1..(i - 1) : a[j] = b[j]

Float(neg, mag) == [neg |-> neg /\ ~IsZeroBits(mag), mag |-> mag]

\* float(k) of an int k.
FloatOfInt(k) == Float(k < 0, FixOfInt(Abs(k)))

\* n / d for an int n and a positive int d taken as doubles: the correctly
\* rounded quotient.
FloatDiv(n, d) ==
    LET a == Abs(n)
        e == IntPart(a \div d) \o FracDiv(a % d, d, FracBits + 2)
    IN  Float(n < 0, RoundBits(e, FracRem(a % d, d, FracBits + 2) # 0))

\* x + y of two doubles: the correctly rounded sum.
FloatAdd(x, y) ==
    IF x.neg = y.neg
        THEN Float(x.neg, RoundBits(AddBits(x.mag, y.mag), FALSE))
    ELSE IF BitsLt(x.mag, y.mag)
        THEN Float(y.neg, RoundBits(SubBits(y.mag, x.mag), FALSE))
    ELSE Float(x.neg, RoundBits(SubBits(x.mag, y.mag), FALSE))

FloatLt(x, y) ==
    IF x.neg # y.neg THEN x.neg
    ELSE IF x.neg THEN BitsLt(y.mag, x.mag)
    ELSE BitsLt(x.mag, y.mag)

FloatLe(x, y) == x = y \/ FloatLt(x, y)

\* The literal 0.1: the double nearest to 1/10.
Lit01 == FloatDiv(1, 10)

\* Variant of the code: the year difference left out.
month_diff_no_year(d1, d2) ==
    FloatAdd(FloatOfInt(d1.m - d2.m), FloatDiv(d1.d - d2.d, 30))

\* Line 63.
month_diff(d1, d2) ==
    FloatAdd(FloatOfInt((d1.y - d2.y) * 12 + (d1.m - d2.m)),
             FloatDiv(d1.d - d2.d, 30))

(***************************************************************************)
(* Regular expressions, as Python's re module matches them: a backtracking *)
(* matcher that tries alternatives left to right and repetitions greedily. *)
(* Match gives every way the expression matches at a position, in the      *)
(* order the matcher tries them, so its first element is the match re      *)
(* returns.  An outcome is [e, g]: the position after the match and the    *)
(* captured groups so far.                                                 *)
(***************************************************************************)
Chr(S) == [t |-> "chr", c |-> S]
Lit(c) == Chr({c})
Cat(rs) == [t |-> "cat", s |-> rs]
Alt(rs) == [t |-> "alt", s |-> rs]
Opt(r) == [t |-> "opt", r |-> r]
Star(r) == [t |-> "star", r |-> r]
Grp(r) == [t |-> "grp", r |-> r]
Times(r, n) == Cat(Tup([i \in 1..n |-> r]))

RECURSIVE Match(_, _, _, _)
RECURSIVE MatchCat(_, _, _, _)
RECURSIVE MatchAlt(_, _, _, _)
RECURSIVE Then(_, _, _)
RECURSIVE ThenStar(_, _, _, _)

Match(r, txt, i, g) ==
    CASE r.t = "chr" ->
            IF i <= Len(txt) /\ txt[i] \in r.c
                THEN <<[e |-> i + 1, g |-> g]>>
                ELSE <<>>
      [] r.t = "cat" -> MatchCat(r.s, txt, i, g)
      [] r.t = "alt" -> MatchAlt(r.s, txt, i, g)
      [] r.t = "opt" -> Match(r.r, txt, i, g) \o <<[e |-> i, g |-> g]>>
      [] r.t = "star" ->
            ThenStar(Match(r.r, txt, i, g), r, txt, i) \o <<[e |-> i, g |-> g]>>
      [] r.t = "grp" ->
            LET os == Match(r.r, txt, i, g)
            IN  Tup([k \in 1..Len(os) |->
                        [e |-> os[k].e,
                         g |-> Append(os[k].g, SubSeq(txt, i, os[k].e - 1))]])

\* rs[1] rs[2] ... in sequence.
MatchCat(rs, txt, i, g) ==
    IF rs = <<>> THEN <<[e |-> i, g |-> g]>>
    ELSE Then(Match(rs[1], txt, i, g), Tail(rs), txt)

\* rs[1] | rs[2] | ... : the outcomes of the first alternative come first.
MatchAlt(rs, txt, i, g) ==
    IF rs = <<>> THEN <<>>
    ELSE Match(rs[1], txt, i, g) \o MatchAlt(Tail(rs), txt, i, g)

\* Continue each outcome of os with the sequence rs.
Then(os, rs, txt) ==
    IF os = <<>> THEN <<>>
    ELSE MatchCat(rs, txt, os[1].e, os[1].g) \o Then(Tail(os), rs, txt)

\* Continue each outcome of one more repetition (that consumed something)
\* with the starred expression r.
ThenStar(os, r, txt, i) ==
    IF os = <<>> THEN <<>>
    ELSE (IF os[1].e > i THEN Match(r, txt, os[1].e, os[1].g) ELSE <<>>)
         \o ThenStar(Tail(os), r, txt, i)

\* The match of r that starts at position i, or None.
MatchAt(r, txt, i) ==
    LET os == Match(r, txt, i, <<>>)
    IN  IF os = <<>> THEN None
        ELSE <<[s |-> i, e |-> os[1].e, g |-> os[1].g]>>

RECURSIVE SearchFrom(_, _, _)
\* re.search from position pos on: the match at the leftmost position.
SearchFrom(r, txt, pos) ==
    IF pos > Len(txt) + 1 THEN None
    ELSE LET m == MatchAt(r, txt, pos)
         IN  IF m # None THEN m ELSE SearchFrom(r, txt, pos + 1)

search(r, txt) == SearchFrom(r, txt, 1)

RECURSIVE FindFrom(_, _, _)
\* re.finditer: the non-overlapping matches, left to right.
FindFrom(r, txt, pos) ==
    LET m == SearchFrom(r, txt, pos)
    IN  IF m = None THEN <<>>
        ELSE m \o FindFrom(r, txt, IF m[1].e = m[1].s THEN m[1].e + 1 ELSE m[1].e)

finditer(r, txt) == FindFrom(r, txt, 1)

\* m.group(0)
Group0(m, txt) == SubSeq(txt, m.s, m.e - 1)

(***************************************************************************)
(* Character classes and the patterns of the rule set.                     *)
(***************************************************************************)
Digits == {"0", "1", "2", "3", "4", "5", "6", "7", "8", "9"}
D == Chr(Digits)
WhiteSpace == {" ", "\t", "\n"}
Ws == Star(Chr(WhiteSpace))
Sep == Chr({".", "/", "-"})
Nyeon == "nyeon"
Wol == "wol"
Il == "il"

Year20 == Grp(Cat(<<Lit("2"), Lit("0"), D, D>>))
Month2 == Grp(Alt(<<Cat(<<Lit("0"), Chr(Digits \ {"0"})>>),
                    Cat(<<Lit("1"), Chr({"0", "1", "2"})>>)>>))
Day2 == Grp(Alt(<<Cat(<<Lit("0"), Chr(Digits \ {"0"})>>),
                  Cat(<<Chr({"1", "2"}), D>>),
                  Cat(<<Lit("3"), Chr({"0", "1"})>>)>>))

\* Lines 26-30.
DATE_PATTERNS ==
    << Cat(<<Year20, Sep, Month2, Sep, Day2>>),
       Cat(<<Month2, Sep, Day2, Sep, Year20>>),
       Cat(<<Year20, Ws, Lit(Nyeon), Ws,
             Grp(Alt(<<Cat(<<Lit("1"), Chr({"0", "1", "2"})>>),
                       Cat(<<Opt(Lit("0")), D>>)>>)),
             Ws, Lit(Wol), Ws,
             Grp(Alt(<<Cat(<<Lit("3"), Chr({"0", "1"})>>),
                       Cat(<<Opt(Chr({"1", "2"})), D>>)>>)),
             Ws, Lit(Il)>>) >>

\* Variant of the code: the dashed form only.
RegNoPatternDashed ==
    Cat(<<Times(D, 3), Lit("-"), Times(D, 2), Lit("-"), Times(D, 5)>>)

\* Line 15.
RegNoPattern ==
    Alt(<<Cat(<<Times(D, 3), Lit("-"), Times(D, 2), Lit("-"), Times(D, 5)>>),
          Times(D, 10)>>)

DigitVal(c) ==
    CASE c = "0" -> 0 [] c = "1" -> 1 [] c = "2" -> 2 [] c = "3" -> 3
      [] c = "4" -> 4 [] c = "5" -> 5 [] c = "6" -> 6 [] c = "7" -> 7
      [] c = "8" -> 8 [] c = "9" -> 9

RECURSIVE int(_)
\* int() of a string of digits.
int(s) == IF s = <<>> THEN 0 ELSE 10 * int(SubSeq(s, 1, Len(s) - 1)) + DigitVal(s[Len(s)])

\* Variant of the code: the first group always taken as the year.
DateOfMatchYearFirst(m, txt) ==
    LET g == m.g
    IN  IF Len(g) # 3 THEN <<>>
        ELSE IF ValidDate(int(g[1]), int(g[2]), int(g[3]))
            THEN <<Date(int(g[1]), int(g[2]), int(g[3]))>>
        ELSE <<>>

\* Lines 47-58: the date of one match, or <<>> when dt.date raises.
DateOfMatch(m, txt) ==
    LET g   == m.g
        ymd == IF \E k \in 1..Len(Group0(m, txt)) : Group0(m, txt)[k] = Nyeon
                   THEN <<int(g[1]), int(g[2]), int(g[3])>>
               ELSE IF Len(g[1]) = 4
                   THEN <<int(g[1]), int(g[2]), int(g[3])>>
               ELSE <<int(g[3]), int(g[1]), int(g[2])>>
    IN  IF Len(g) # 3 THEN <<>>
        ELSE IF ValidDate(ymd[1], ymd[2], ymd[3])
            THEN <<Date(ymd[1], ymd[2], ymd[3])>>
        ELSE <<>>

RECURSIVE DatesOfMatches(_, _)
DatesOfMatches(ms, txt) ==
    IF ms = <<>> THEN <<>>
    ELSE DateOfMatch(ms[1], txt) \o DatesOfMatches(Tail(ms), txt)

\* Lines 43-59.
find_dates(txt) ==
    DatesOfMatches(finditer(DATE_PATTERNS[1], txt), txt)
    \o DatesOfMatches(finditer(DATE_PATTERNS[2], txt), txt)
    \o DatesOfMatches(finditer(DATE_PATTERNS[3], txt), txt)

(***************************************************************************)
(* String formatting used by the result details.                           *)
(***************************************************************************)
DigitChar(n) ==
    CASE n = 0 -> "0" [] n = 1 -> "1" [] n = 2 -> "2" [] n = 3 -> "3"
      [] n = 4 -> "4" [] n = 5 -> "5" [] n = 6 -> "6" [] n = 7 -> "7"
      [] n = 8 -> "8" [] n = 9 -> "9"

RECURSIVE Pow10(_)
Pow10(n) == IF n = 0 THEN 1 ELSE 10 * Pow10(n - 1)

\* "%0wd" % n
Dec(n, w) == Tup([i \in 1..w |-> DigitChar((n \div Pow10(w - i)) % 10)])

RECURSIVE DecStr(_)
\* str(n) of a natural number.
DecStr(n) == IF n < 10 THEN <<DigitChar(n)>> ELSE DecStr(n \div 10) \o <<DigitChar(n % 10)>>

\* str(d) of a date, or of None.
StrDate(o) ==
    IF o = None THEN <<"N", "o", "n", "e">>
    ELSE Dec(o[1].y, 4) \o <<"-">> \o Dec(o[1].m, 2) \o <<"-">> \o Dec(o[1].d, 2)

RECURSIVE BitsToInt(_)
BitsToInt(b) == IF b = <<>> THEN 0 ELSE 2 * BitsToInt(SubSeq(b, 1, Len(b) - 1)) + b[Len(b)]

\* f"{x:.1f}": the exact value of the double, rounded to tenths, ties to even.
Fmt1f(x) ==
    LET n    == BitsToInt(SubSeq(x.mag, 1, IntBits))
        f    == Zeros(IntBits) \o SubSeq(x.mag, IntBits + 1, FixWidth)
        f10  == AddBits(SubSeq(f, 4, FixWidth) \o Zeros(3), SubSeq(f, 2, FixWidth) \o Zeros(1))
        low  == 10 * n + BitsToInt(SubSeq(f10, 1, IntBits))
        rest == SubSeq(f10, IntBits + 1, FixWidth)
        up   == rest[1] = 1 /\ (low % 2 = 1 \/ ~IsZeroBits(Tail(rest)))
        t    == IF up THEN low + 1 ELSE low
    IN  (IF x.neg THEN <<"-">> ELSE <<>>) \o DecStr(t \div 10) \o <<".">> \o <<DigitChar(t % 10)>>

(***************************************************************************)
(* The rule set (lines 11-24) and the checks (lines 66-110).               *)
(***************************************************************************)
BusinessDoc == "saeopjadeungrokjeung"
DisinfectionDoc == "sodokpiljeung"

RULES ==
    (BusinessDoc :>
        [fields_required |->
            << <<"sang", "ho">>,
               <<"dae", "pyo", "ja">>,
               <<"sa", "eop", "ja", "deung", "rok", "beon", "ho">>,
               <<"sa", "eop", "jang">>,
               <<"so", "jae", "ji">> >>,
         patterns |-> [saeopjadeungrokbeonho |-> RegNoPattern]])
    @@
    (DisinfectionDoc :>
        [fields_required |->
            << <<"so", "dok">>,
               <<"dae", "sang">>,
               <<"si", "seol">>,
               <<"gi", "gan">>,
               <<"sil", "si", "ja">> >>,
         summer_months |-> {4, 5, 6, 7, 8, 9},
         summer_max_months |-> 2,
         winter_max_months |-> 3])

CheckResult(name, passed, detail) == [name |-> name, passed |-> passed, detail |-> detail]

\* Variant of the code: kw matched at the start of the text only.
InAtStart(kw, txt) == Len(kw) <= Len(txt) /\ SubSeq(txt, 1, Len(kw)) = kw

\* kw in text
In(kw, txt) == \E i \in 1..(Len(txt) - Len(kw) + 1) : SubSeq(txt, i, i + Len(kw) - 1) = kw

\* Variant of the code: the keyword results in reverse rule order.
KeywordResultsReversed(fields, txt) ==
    Tup([k \in 1..Len(fields) |->
            LET kw == fields[Len(fields) + 1 - k]
            IN  CheckResult(<<"pilsuhangmok poham yeobu: ">> \o kw, In(kw, txt),
                            <<"'">> \o kw \o <<"'", " ">>
                                \o <<IF In(kw, txt) THEN "jonjae" ELSE "bujae">>)])

\* Lines 75-77 and 86-88: one result per required keyword, in rule order.
KeywordResults(fields, txt) ==
    Tup([k \in 1..Len(fields) |->
            CheckResult(<<"pilsuhangmok poham yeobu: ">> \o fields[k],
                        In(fields[k], txt),
                        <<"'">> \o fields[k] \o <<"'", " ">>
                            \o <<IF In(fields[k], txt) THEN "jonjae" ELSE "bujae">>)])

\* Lines 73-81.
check_business_registration(txt) ==
    LET m == search(RULES[BusinessDoc].patterns.saeopjadeungrokbeonho, txt)
    IN  KeywordResults(RULES[BusinessDoc].fields_required, txt)
        \o << CheckResult(<<"saeopjadeungrokbeonho hyeongsik">>,
                          m # None,
                          <<"gamjigap: ">> \o (IF m # None THEN Group0(m[1], txt) ELSE <<"-">>)) >>

\* Line 92.
DateFoundResult(l) ==
    CheckResult(<<"sodogil(choesin gwageoilja) chuchul">>, l # None, <<"gamjigap: ">> \o StrDate(l))

\* Variant of the code: the threshold chosen by the month of today.
MaxMonthsOfToday(l) ==
    IF clock.m \in RULES[DisinfectionDoc].summer_months
        THEN RULES[DisinfectionDoc].summer_max_months
        ELSE RULES[DisinfectionDoc].winter_max_months

\* Line 96.
MaxMonths(l) ==
    IF l.m \in RULES[DisinfectionDoc].summer_months
        THEN RULES[DisinfectionDoc].summer_max_months
        ELSE RULES[DisinfectionDoc].winter_max_months

\* Line 98, for elapsed e and the latest date l.
WithinPeriod(e, l) == FloatLe(e, FloatAdd(FloatOfInt(MaxMonths(l)), Lit01))

\* Lines 99-100.
ComplianceResult(e, l) ==
    CheckResult(<<"sodokjugi chungjok yeobu">>,
                WithinPeriod(e, l),
                <<"panjeonggijun: ",
                  IF l.m \in RULES[DisinfectionDoc].summer_months
                      THEN "hajeolgi(2gaewol)" ELSE "dongjeolgi(3gaewol)",
                  ", gyeonggwa: ">> \o Fmt1f(e) \o <<"gaewol">>)

\* Line 103.
FutureResult(hf) ==
    CheckResult(<<"mirae naljja deungrok yeobu">>, ~hf,
                <<IF hf THEN "mirae naljja balgyeondoem" ELSE "mibalgyeon">>)

\* Lines 107-110.
DOC_CHECKERS ==
    (BusinessDoc :> "check_business_registration")
    @@ (DisinfectionDoc :> "check_disinfection_certificate")

(***************************************************************************)
(* Inputs.  A text is a concatenation of at most MaxFrags fragments.       *)
(***************************************************************************)
Sang == "sang"
Ho == "ho"
Dae == "dae"
Pyo == "pyo"
Ja == "ja"
Sa == "sa"
Eop == "eop"
Deung == "deung"
Rok == "rok"
Beon == "beon"
Jang == "jang"
So == "so"
Jae == "jae"
Ji == "ji"
Dok == "dok"
Si == "si"
Seol == "seol"
Gi == "gi"
Gan == "gan"
Sil == "sil"

\* Fragments of certificates: keywords, whole, split and overlapping, a
\* registration number, and dates around the days the clock shows.
Fragments ==
    { <<Sang, Ho, " ", Dae, Pyo, Ja, " ", Sa, Eop, Ja, Deung, Rok, Beon, Ho, " ",
        "1", "2", "3", "-", "4", "5", "-", "6", "7", "8", "9", "0", " ",
        Sa, Eop, Jang, " ", So, Jae, Ji>>,
      <<Dok, " ", Dae, Sang, Ho, " ">>,
      <<Si, Seol, Gi, Gan, " ", Sil, Si, Ja>>,
      <<So>>,
      <<"2", "0", "2", "4", Nyeon, " ", "5", Wol, " ", "1", Il>>,
      <<"0", "4", "/", "3", "0", "/", "2", "0", "2", "4">>,
      <<"2", "0", "2", "4", ".", "0", "3", ".", "3", "1">>,
      <<"2", "0", "2", "4", "-", "0", "7", "-", "0", "5">>,
      <<"1", "0", "/", "0", "1", "/", "2", "0", "2", "3">> }

\* Date-like and number-like fragments for the text scans.
ScanFragments ==
    { <<"2", "0", "2", "4", "-", "0", "4", "-", "3", "0">>,
      <<"2", "0", "2", "4", ".", "0", "4", ".", "3", "1">>,
      <<"0", "2", "/", "3", "0", "/", "2", "0", "2", "4">>,
      <<"0", "2", "/", "2", "9", "/", "2", "0", "2", "4">>,
      <<"2", "0", "2", "3", "/", "0", "2", "/", "2", "9">>,
      <<"1", "2", "-", "3", "1", "-">>,
      <<"-", "2", "0", "2", "4">>,
      <<"2", "0", "2", "4", Nyeon, " ", "0", Wol, " ", "5", Il>>,
      <<"2", "0", "2", "4", " ", Nyeon, " ", "6", " ", Wol, " ", "0", " ", Il>>,
      <<"2", "0", "2", "4", Nyeon, "1", "2", Wol, "3", "1", Il>>,
      <<"2", "0", "2", "4", Nyeon, "\n", "4", Wol, "\t", "3", "1", Il>>,
      <<"2", "0">>,
      <<"x">>,
      <<"1", "2", "3", "-", "4", "5", "-", "6", "7", "8", "9", "0">>,
      <<"1", "2", "3", "4", "5", "6", "7", "8", "9", "0">>,
      <<"1", "2", "3", "-", "4", "5", "-", "6", "7", "8", "9">>,
      <<"1", "2", "3", "4", "5">>,
      <<"9">> }

RECURSIVE TextsOf(_, _)
TextsOf(F, n) ==
    IF n = 0 THEN {<<>>}
    ELSE LET T == TextsOf(F, n - 1)
         IN  T \cup {t \o f : t \in T, f \in F}

Texts == TextsOf(Fragments, MaxFrags)
ScanTexts == TextsOf(ScanFragments, MaxFrags)

\* The selector strings handed to the dispatch table: its keys and another.
DocTypeInputs == {BusinessDoc, DisinfectionDoc, "gita"}

\* The dates the clock may show when the script starts.
ClockStarts == {Date(2024, 7, 4)}

\* The latest dates of the period study.
PeriodDates ==
    {x \in {Date(y, m, d) : y \in {2023, 2024}, m \in 1..12, d \in 1..31} :
        ValidDate(x.y, x.m, x.d)}

(***************************************************************************)
(* The script (lines 117-148) and the checkers, step by step.  A step ends *)
(* where the next statement reads the clock.                               *)
(***************************************************************************)
NoReads == [f |-> <<>>, p |-> <<>>, u |-> <<>>]

\* The window of clock values a loop has read: <<first, last>>.
Seen(w, t) == IF w = <<>> THEN <<t, t>> ELSE <<w[1], t>>

Quiet ==
    /\ ticks = 0
    /\ doc_type = ""
    /\ text = <<>>
    /\ checker = "none"
    /\ error = "none"
    /\ results = <<>>
    /\ found = <<>>
    /\ idx = 0
    /\ all_dates = <<>>
    /\ latest = None
    /\ elapsed = None
    /\ ok = FALSE
    /\ has_future = FALSE
    /\ reads = NoReads

Init ==
    /\ clock \in ClockStarts
    /\ pc = "idle"
    /\ Quiet

\* Lines 119-130: a type is selected and a PDF uploaded; its text is extracted.
\* Empty text ends the run with a message.
Upload(t, d) ==
    /\ pc = "idle"
    /\ text' = t
    /\ doc_type' = d
    /\ pc' = IF t = <<>> THEN "no_text" ELSE "dispatch"
    /\ UNCHANGED <<clock, ticks, checker, error, results, found, idx, all_dates,
                   latest, elapsed, ok, has_future, reads>>

\* Variant of the code: a string that is no key falls back to the first checker.
DispatchWithDefault ==
    /\ pc = "dispatch"
    /\ checker' = IF doc_type \in DOMAIN DOC_CHECKERS
                      THEN DOC_CHECKERS[doc_type]
                      ELSE DOC_CHECKERS[BusinessDoc]
    /\ pc' = "call"
    /\ UNCHANGED <<clock, ticks, doc_type, text, error, results, found, idx,
                   all_dates, latest, elapsed, ok, has_future, reads>>

\* Line 136, DOC_CHECKERS[doc_type]: the lookup raises KeyError for a string
\* that is no key.
Dispatch ==
    /\ pc = "dispatch"
    /\ IF doc_type \in DOMAIN DOC_CHECKERS
           THEN /\ checker' = DOC_CHECKERS[doc_type]
                /\ pc' = "call"
                /\ error' = error
           ELSE /\ error' = "KeyError"
                /\ pc' = "failed"
                /\ checker' = checker
    /\ UNCHANGED <<clock, ticks, doc_type, text, results, found, idx, all_dates,
                   latest, elapsed, ok, has_future, reads>>

\* Lines 73-81.
CheckBusiness ==
    /\ pc = "call"
    /\ checker = "check_business_registration"
    /\ results' = check_business_registration(text)
    /\ pc' = "done"
    /\ UNCHANGED <<clock, ticks, doc_type, text, checker, error, found, idx,
                   all_dates, latest, elapsed, ok, has_future, reads>>

\* Lines 85-90: the keyword results, and the call of find_dates the filter
\* iterates.
DisinfectionStart ==
    /\ pc = "call"
    /\ checker = "check_disinfection_certificate"
    /\ results' = KeywordResults(RULES[DisinfectionDoc].fields_required, text)
    /\ found' = find_dates(text)
    /\ idx' = 0
    /\ all_dates' = <<>>
    /\ pc' = "filter"
    /\ UNCHANGED <<clock, ticks, doc_type, text, checker, error, latest, elapsed,
                   ok, has_future, reads>>

\* Variant of the code: d < dt.date.today()
FilterKeepsStrict(d, today) == DateLt(d, today)

\* Line 90, the condition of the comprehension: d <= dt.date.today()
FilterKeeps(d, today) == DateLe(d, today)

\* Line 90, one element of the comprehension: the condition reads the clock.
FilterStep ==
    /\ pc = "filter"
    /\ idx < Len(found)
    /\ idx' = idx + 1
    /\ all_dates' = IF FilterKeeps(found[idx + 1], clock)
                        THEN Append(all_dates, found[idx + 1])
                        ELSE all_dates
    /\ reads' = [reads EXCEPT !.f = Seen(reads.f, clock)]
    /\ UNCHANGED <<clock, ticks, pc, doc_type, text, checker, error, results,
                   found, latest, elapsed, ok, has_future>>

\* Lines 91-94.
FilterDone ==
    /\ pc = "filter"
    /\ idx = Len(found)
    /\ latest' = IF all_dates # <<>> THEN <<MaxDate(all_dates)>> ELSE None
    /\ results' = Append(results, DateFoundResult(latest'))
    /\ pc' = IF latest' # None THEN "period" ELSE "future_call"
    /\ UNCHANGED <<clock, ticks, doc_type, text, checker, error, found, idx,
                   all_dates, elapsed, ok, has_future, reads>>

\* Lines 95-100: one read of the clock.
PeriodStep ==
    /\ pc = "period"
    /\ elapsed' = <<month_diff(clock, latest[1])>>
    /\ ok' = WithinPeriod(elapsed'[1], latest[1])
    /\ results' = Append(results, ComplianceResult(elapsed'[1], latest[1]))
    /\ reads' = [reads EXCEPT !.p = <<clock>>]
    /\ pc' = "future_call"
    /\ UNCHANGED <<clock, ticks, doc_type, text, checker, error, found, idx,
                   all_dates, latest, has_future>>

\* Line 102: the second call of find_dates.
FutureCall ==
    /\ pc = "future_call"
    /\ found' = find_dates(text)
    /\ idx' = 0
    /\ has_future' = FALSE
    /\ pc' = "future"
    /\ UNCHANGED <<clock, ticks, doc_type, text, checker, error, results,
                   all_dates, latest, elapsed, ok, reads>>

\* Variant of the code: d >= dt.date.today()
IsFutureOrToday(d, today) == DateLe(today, d)

\* Line 102, the condition of the generator: d > dt.date.today()
IsFuture(d, today) == DateLt(today, d)

\* Line 102, one element of any(...): the condition reads the clock; any stops
\* at the first true one.
FutureStep ==
    /\ pc = "future"
    /\ ~has_future
    /\ idx < Len(found)
    /\ idx' = idx + 1
    /\ has_future' = IsFuture(found[idx + 1], clock)
    /\ reads' = [reads EXCEPT !.u = Seen(reads.u, clock)]
    /\ UNCHANGED <<clock, ticks, pc, doc_type, text, checker, error, results,
                   found, all_dates, latest, elapsed, ok>>

\* Lines 103-105.
FutureDone ==
    /\ pc = "future"
    /\ has_future \/ idx = Len(found)
    /\ results' = Append(results, FutureResult(has_future))
    /\ pc' = "done"
    /\ UNCHANGED <<clock, ticks, doc_type, text, checker, error, found, idx,
                   all_dates, latest, elapsed, ok, has_future, reads>>

\* Midnight passes while check_disinfection_certificate runs.  (The days that
\* pass before it runs are the choice of the initial date.)
Tick ==
    /\ pc \in {"filter", "period", "future_call", "future"}
    /\ ticks < MaxTicks
    /\ clock' = Tomorrow(clock)
    /\ ticks' = ticks + 1
    /\ UNCHANGED <<pc, doc_type, text, checker, error, results, found, idx,
                   all_dates, latest, elapsed, ok, has_future, reads>>

Next ==
    \/ \E t \in Texts, d \in DocTypeInputs : Upload(t, d)
    \/ Dispatch
    \/ CheckBusiness
    \/ DisinfectionStart
    \/ FilterStep
    \/ FilterDone
    \/ PeriodStep
    \/ FutureCall
    \/ FutureStep
    \/ FutureDone
    \/ Tick

Spec == Init /\ [][Next]_vars

(***************************************************************************)
(* The text scans on their own: find_dates and check_business_registration *)
(* are functions of the text alone.                                        *)
(***************************************************************************)
ScanInit ==
    /\ clock \in ClockStarts
    /\ pc = "text"
    /\ Quiet

ScanUpload(t) ==
    /\ pc = "text"
    /\ text = <<>>
    /\ t # <<>>
    /\ text' = t
    /\ UNCHANGED <<clock, ticks, pc, doc_type, checker, error, results, found, idx,
                   all_dates, latest, elapsed, ok, has_future, reads>>

ApplyFindDates ==
    /\ pc = "text"
    /\ found' = find_dates(text)
    /\ pc' = "dates"
    /\ UNCHANGED <<clock, ticks, doc_type, text, checker, error, results, idx,
                   all_dates, latest, elapsed, ok, has_future, reads>>

ApplyCheckBusiness ==
    /\ pc = "text"
    /\ results' = check_business_registration(text)
    /\ pc' = "checked"
    /\ UNCHANGED <<clock, ticks, doc_type, text, checker, error, found, idx,
                   all_dates, latest, elapsed, ok, has_future, reads>>

ScanNext ==
    \/ \E t \in ScanTexts : ScanUpload(t)
    \/ ApplyFindDates
    \/ ApplyCheckBusiness

SpecScan == ScanInit /\ [][ScanNext]_vars

(***************************************************************************)
(* One certificate, whose latest date stays the same, evaluated day after  *)
(* day (lines 96-98 on successive days).                                   *)
(***************************************************************************)
PeriodInit ==
    /\ latest \in {<<d>> : d \in PeriodDates}
    /\ clock = latest[1]
    /\ pc = "certificate"
    /\ ticks = 0
    /\ doc_type = DisinfectionDoc
    /\ text = <<>>
    /\ checker = "check_disinfection_certificate"
    /\ error = "none"
    /\ results = <<>>
    /\ found = <<>>
    /\ idx = 0
    /\ all_dates = <<>>
    /\ elapsed = <<month_diff(clock, latest[1])>>
    /\ ok = WithinPeriod(elapsed[1], latest[1])
    /\ has_future = FALSE
    /\ reads = NoReads

EvaluateNextDay ==
    /\ pc = "certificate"
    /\ ticks < MaxElapsedDays
    /\ clock' = Tomorrow(clock)
    /\ ticks' = ticks + 1
    /\ elapsed' = <<month_diff(clock', latest[1])>>
    /\ ok' = WithinPeriod(elapsed'[1], latest[1])
    /\ UNCHANGED <<pc, doc_type, text, checker, error, results, found, idx,
                   all_dates, latest, has_future, reads>>

PeriodNext == EvaluateNextDay

SpecPeriod == PeriodInit /\ [][PeriodNext]_vars

(***************************************************************************)
(* Properties.                                                             *)
(***************************************************************************)
Range(q) == {q[i] : i \in 1..Len(q)}

Disinfection == checker = "check_disinfection_certificate"
Business == checker = "check_business_registration"

Names(rs) == Tup([i \in 1..Len(rs) |-> rs[i].name])
KeywordName(kw) == <<"pilsuhangmok poham yeobu: ">> \o kw
FormatName == <<"saeopjadeungrokbeonho hyeongsik">>
DateFoundName == <<"sodogil(choesin gwageoilja) chuchul">>
ComplianceName == <<"sodokjugi chungjok yeobu">>
FutureName == <<"mirae naljja deungrok yeobu">>

\* The days from w[1] to w[2].
Window(w) == {t \in {DaysAfter(w[1], k) : k \in 0..MaxTicks} : DateLe(t, w[2])}

\* The days the clock showed while the filter of line 90 ran, and while the
\* any(...) of line 102 ran (one day, unless midnight passed meanwhile).
TodaysOfFilter == IF reads.f = <<>> THEN {clock} ELSE Window(reads.f)
TodaysOfFuture == IF reads.u = <<>> THEN {clock} ELSE Window(reads.u)

\* month_diff in thirtieths of a month, exactly.
Exact30(t, l) == 30 * (12 * (t.y - l.y) + (t.m - l.m)) + (t.d - l.d)

\* C1: once the compliance result exists, it passes exactly when
\* 30*(12*dy + dm) + dd <= 30*threshold + 3 (month_diff(today, latest) <= 2.1 or
\* 3.1), today being the date line 97 read, and the threshold 2 when the month
\* of latest is in 4..9 and 3 otherwise, whatever the month of today.
C1_SeasonalThreshold ==
    (Disinfection /\ reads.p # <<>>) =>
        LET today == reads.p[1]
            l     == latest[1]
            r     == results[7]
        IN  /\ r.name = ComplianceName
            /\ r.passed <=>
                  (Exact30(today, l) <= 30 * (IF l.m \in {4, 5, 6, 7, 8, 9} THEN 2 ELSE 3) + 3)

\* C1 witness: a certificate whose latest date is in a winter month passes on a
\* summer day more than 2.1 months later.
C1_Witness ==
    /\ Disinfection
    /\ reads.p # <<>>
    /\ results[7].passed
    /\ latest[1].m \notin {4, 5, 6, 7, 8, 9}
    /\ reads.p[1].m \in {4, 5, 6, 7, 8, 9}
    /\ Exact30(reads.p[1], latest[1]) = 93

\* C2: once the date-found result exists, there is a day today, among those
\* the clock showed while the filter ran, for which the result passes exactly
\* when some extracted date is <= today, and then latest is the greatest
\* extracted date that is <= today; otherwise latest is None.
C2_LatestIsMaxPast ==
    (Disinfection /\ Len(results) >= 6) =>
        \E t \in TodaysOfFilter :
            LET past == {d \in Range(found) : DateLe(d, t)}
                r    == results[6]
            IN  /\ r.name = DateFoundName
                /\ r.passed <=> (past # {})
                /\ r.passed => /\ latest # None
                               /\ latest[1] \in past
                               /\ \A d \in past : DateLe(d, latest[1])
                /\ ~r.passed => latest = None

\* C2 witness: the text holds a date after today and a date before it, which
\* is latest.
C2_Witness ==
    /\ Disinfection
    /\ pc = "done"
    /\ results[6].passed
    /\ \E d \in Range(found) : DateLt(clock, d)
    /\ DateLt(latest[1], clock)

\* C3: when the checker is done, there is a day today, among those the clock
\* showed while line 102 ran, for which the future-date result fails exactly
\* when some extracted date is after today.
C3_FutureDate ==
    (Disinfection /\ pc = "done") =>
        \E t \in TodaysOfFuture :
            LET r == results[Len(results)]
            IN  /\ r.name = FutureName
                /\ (~r.passed) <=> (\E d \in Range(found) : DateLt(t, d))

\* C3 witness: no latest date exists and the future-date result fails.
C3_Witness ==
    /\ Disinfection
    /\ pc = "done"
    /\ latest = None
    /\ ~results[Len(results)].passed

\* kw occurs in txt: at some offset every character of kw is there in turn.
Occurs(kw, txt) ==
    \E i \in 0..(Len(txt) - Len(kw)) : \A j \in 1..Len(kw) : txt[i + j] = kw[j]

\* C4: in both checkers, result k is the result of keyword k of the document
\* type's rule, it passes exactly when the keyword occurs in the text, and no
\* other result bears its name.
C4_KeywordPresence ==
    ((Disinfection \/ Business) /\ Len(results) >= 5) =>
        LET fields == RULES[doc_type].fields_required
        IN  \A k \in 1..Len(fields) :
                /\ results[k].name = KeywordName(fields[k])
                /\ results[k].passed <=> Occurs(fields[k], text)
                /\ Cardinality({i \in 1..Len(results) :
                                   results[i].name = KeywordName(fields[k])}) = 1

\* C4 witness: a disinfection certificate with a date in it, whose second
\* keyword is present and whose first is absent (its last syllable only is
\* there).
C4_Witness ==
    /\ Disinfection
    /\ pc = "done"
    /\ found # <<>>
    /\ results[2].passed
    /\ ~results[1].passed

\* A registration number starts at position i of txt.
FormDashed(txt, i) ==
    /\ i + 11 <= Len(txt)
    /\ \A k \in {0, 1, 2, 4, 5, 7, 8, 9, 10, 11} : txt[i + k] \in Digits
    /\ txt[i + 3] = "-"
    /\ txt[i + 6] = "-"

FormBare(txt, i) ==
    /\ i + 9 <= Len(txt)
    /\ \A k \in 0..9 : txt[i + k] \in Digits

\* C5: check_business_registration gives exactly one format result; it passes
\* exactly when some substring is DDD-DD-DDDDD or ten digits; its detail is the
\* leftmost such substring, or "-" when there is none.
C5_RegistrationFormat ==
    (pc = "checked") =>
        LET starts == {i \in 1..Len(text) : FormDashed(text, i) \/ FormBare(text, i)}
            r      == results[Len(results)]
        IN  /\ Cardinality({i \in 1..Len(results) : results[i].name = FormatName}) = 1
            /\ r.name = FormatName
            /\ r.passed <=> (starts # {})
            /\ IF starts # {}
                   THEN LET i == CHOOSE x \in starts : \A z \in starts : x <= z
                        IN  r.detail = <<"gamjigap: ">>
                               \o SubSeq(text, i, IF FormDashed(text, i) THEN i + 11 ELSE i + 9)
                   ELSE r.detail = <<"gamjigap: ", "-">>

\* C5 witness: a bare ten-digit number is found that does not start the text and
\* is followed by more digits.
C5_Witness ==
    /\ pc = "checked"
    /\ results[6].passed
    /\ ~FormBare(text, 1)
    /\ ~FormDashed(text, 1)
    /\ \E i \in 2..Len(text) : FormBare(text, i) /\ FormBare(text, i + 1)

\* C6: the results of a finished checker are, in this order: the five keyword
\* results in rule order, then for a business registration the format result
\* (6 results), and for a disinfection certificate the date-found result, the
\* compliance result exactly when latest exists, and the future-date result
\* (8 results when latest exists, 7 when not).
C6_ResultOrder ==
    (pc = "done") =>
        LET kw == Tup([k \in 1..5 |-> KeywordName(RULES[doc_type].fields_required[k])])
        IN  IF Business
                THEN /\ Names(results) = kw \o <<FormatName>>
                     /\ Len(results) = 6
                ELSE /\ Names(results) =
                            kw \o <<DateFoundName>>
                               \o (IF latest # None THEN <<ComplianceName>> ELSE <<>>)
                               \o <<FutureName>>
                     /\ Len(results) = (IF latest # None THEN 8 ELSE 7)
                     /\ results[6].passed <=> (latest # None)

\* C6 witness: a disinfection check that found dates, none of them a latest
\* date, ends with 7 results.
C6_Witness ==
    /\ pc = "done"
    /\ Disinfection
    /\ found # <<>>
    /\ latest = None
    /\ Len(results) = 7

\* C7: a finished disinfection check is the check of (text, today) for one day
\* today: the filter kept exactly the extracted dates <= today, the elapsed
\* months were computed for today, and the future-date result fails exactly
\* when an extracted date is after today; so every extracted date was a
\* candidate for latest or makes the future-date result fail.
C7_OneToday ==
    (Disinfection /\ pc = "done") =>
        /\ \E t \in {DaysAfter(d, k) : d \in ClockStarts, k \in 0..MaxTicks} :
              /\ \A d \in Range(found) : (d \in Range(all_dates)) <=> DateLe(d, t)
              /\ reads.p # <<>> => reads.p[1] = t
              /\ has_future <=> (\E d \in Range(found) : DateLt(t, d))
        /\ \A d \in Range(found) :
              d \in Range(all_dates) \/ ~results[Len(results)].passed

\* C8: after the dispatch, a selector that is a key of the table has given the
\* checker of its document type and no error; any other selector has given a
\* KeyError, no checker and no results.  The dispatch itself produces nothing.
C8_Dispatch ==
    /\ (pc \notin {"idle", "no_text", "dispatch"}) =>
          IF doc_type = BusinessDoc
              THEN Business /\ error = "none"
          ELSE IF doc_type = DisinfectionDoc
              THEN Disinfection /\ error = "none"
          ELSE /\ pc = "failed"
               /\ error = "KeyError"
               /\ checker = "none"
               /\ results = <<>>
               /\ found = <<>>
    /\ (pc \in {"call", "failed"}) => results = <<>> /\ found = <<>> /\ reads = NoReads

\* C8 witness: the dispatch of a string that is no key has failed.
C8_Witness ==
    /\ pc = "failed"
    /\ doc_type \notin {BusinessDoc, DisinfectionDoc}
    /\ text # <<>>

\* The (year, month, day) strings of a match: the group of four digits is the
\* year, the other two are month and day in their order.
TripleOf(m) ==
    IF Len(m.g[1]) = 4 THEN <<int(m.g[1]), int(m.g[2]), int(m.g[3])>>
    ELSE <<int(m.g[3]), int(m.g[1]), int(m.g[2])>>

AllMatches(txt) ==
    finditer(DATE_PATTERNS[1], txt) \o finditer(DATE_PATTERNS[2], txt)
        \o finditer(DATE_PATTERNS[3], txt)

\* C9: find_dates returns valid calendar dates only; every match of a pattern
\* whose triple (the four-digit group being the year) is a calendar date is
\* returned, and the matches whose triple is none are dropped and nothing else:
\* the result has one date per valid match.
C9_FindDates ==
    (pc = "dates") =>
        LET ms    == AllMatches(text)
            valid == {k \in 1..Len(ms) :
                         ValidDate(TripleOf(ms[k])[1], TripleOf(ms[k])[2], TripleOf(ms[k])[3])}
        IN  /\ \A i \in 1..Len(found) : ValidDate(found[i].y, found[i].m, found[i].d)
            /\ \A k \in valid :
                  Date(TripleOf(ms[k])[1], TripleOf(ms[k])[2], TripleOf(ms[k])[3]) \in Range(found)
            /\ Len(found) = Cardinality(valid)

\* C9 witness: a text with a match that is no calendar date, before a
\* month-day-year match that is one and is returned.
C9_Witness ==
    /\ pc = "dates"
    /\ Len(found) >= 1
    /\ \E m \in Range(AllMatches(text)) :
          ~ValidDate(TripleOf(m)[1], TripleOf(m)[2], TripleOf(m)[3])
    /\ \E m \in Range(AllMatches(text)) :
          /\ Len(m.g[1]) = 2
          /\ Date(TripleOf(m)[1], TripleOf(m)[2], TripleOf(m)[3]) \in Range(found)

\* C10 as stated: from one day to the next the computed month_diff(today,
\* latest) never decreases (and is never negative), and a certificate that
\* fails stays failed.
C10_ElapsedNonDecreasing ==
    [][(pc = "certificate") =>
          /\ FloatLe(elapsed[1], elapsed'[1])
          /\ ~elapsed'[1].neg
          /\ ok' => ok]_vars

\* C10 amended: the exact value of month_diff never decreases from one day to
\* the next and the computed one is never negative; the computed one decreases
\* only from the 31st of a month to the 1st of the next, where the exact value
\* stays the same; and a certificate that fails stays failed.
C10_ComplianceMonotone ==
    [][(pc = "certificate") =>
          /\ Exact30(clock, latest[1]) <= Exact30(clock', latest[1])
          /\ Exact30(clock, latest[1]) >= 0
          /\ ~elapsed'[1].neg
          /\ FloatLt(elapsed'[1], elapsed[1]) =>
                /\ clock.d = 31
                /\ clock'.d = 1
                /\ Exact30(clock, latest[1]) = Exact30(clock', latest[1])
          /\ ok' => ok]_vars

\* C10 witness: a certificate that passed on its date fails on the 1st of a
\* month, the day after a 31st.
C10_Witness ==
    /\ pc = "certificate"
    /\ ~ok
    /\ clock.d = 1
    /\ clock.m \in {1, 2, 4, 6, 8, 9, 11}
    /\ ticks > 60

====
